---- MODULE Spec2Model ----
(***************************************************************************)
(* Model of the LLM enrichment pipeline of telegram-bot-analytics:         *)
(*   LLMProcessor.__init__ / is_available / analyze_request /              *)
(*   analyze_multiple_requests      (src/src/llm_processor.py)             *)
(*   the display mappings of LLMAnalysis and main.PRIORITY_STYLES.         *)
(*                                                                         *)
(* Strings whose content matters (free text, priority) are sequences of    *)
(* one-character strings, so that str.strip and str.lower are computed.    *)
(* Printed messages are named by the failure signal they stand for.        *)
(* LLMAnalysis.processing_time (a wall-clock difference) is not modelled.  *)
(***************************************************************************)
EXTENDS Integers, Sequences, FiniteSets, TLC

\* ------------------------------------------------------------------ bounds
\* Largest batch handed to analyze_multiple_requests.
MaxBatch == 3

\* ------------------------------------------------------- strings (str.*)
Whitespace == {" ", "\t", "\n"}

UpperToLower ==
  [c \in {"A","E","G","H","I","L","N","O","R","T","U","W"} |->
     CASE c = "A" -> "a" [] c = "E" -> "e" [] c = "G" -> "g" [] c = "H" -> "h"
       [] c = "I" -> "i" [] c = "L" -> "l" [] c = "N" -> "n" [] c = "O" -> "o"
       [] c = "R" -> "r" [] c = "T" -> "t" [] c = "U" -> "u" [] c = "W" -> "w"]

\* str.lower(): every cased character is mapped to its lower-case form.
Lower(s) ==
  [k \in 1..Len(s) |-> IF s[k] \in DOMAIN UpperToLower THEN UpperToLower[s[k]] ELSE s[k]]

RECURSIVE LStrip(_)
LStrip(s) ==
  IF s # <<>> /\ Head(s) \in Whitespace THEN LStrip(Tail(s)) ELSE s

RECURSIVE RStrip(_)
RStrip(s) ==
  IF s # <<>> /\ s[Len(s)] \in Whitespace THEN RStrip(SubSeq(s, 1, Len(s) - 1)) ELSE s

\* str.strip(): leading and trailing whitespace removed.
Strip(s) == RStrip(LStrip(s))

\* ------------------------------------------------------ exception classes
\* Direct base class of every exception class that can occur in analyze_request
\* (openai: RateLimitError < APIStatusError < APIError < OpenAIError < Exception,
\*  APITimeoutError < APIConnectionError < APIError; json.JSONDecodeError < ValueError).
Base ==
  [e \in {"JSONDecodeError", "ValueError", "TypeError", "AttributeError",
          "IndexError", "RuntimeError", "RateLimitError", "APIStatusError",
          "APIConnectionError", "APITimeoutError", "APIError", "OpenAIError",
          "Exception"} |->
     CASE e = "JSONDecodeError"    -> "ValueError"
       [] e = "RateLimitError"     -> "APIStatusError"
       [] e = "APIStatusError"     -> "APIError"
       [] e = "APITimeoutError"    -> "APIConnectionError"
       [] e = "APIConnectionError" -> "APIError"
       [] e = "APIError"           -> "OpenAIError"
       [] e = "Exception"          -> "BaseException"
       [] OTHER                    -> "Exception"]

RECURSIVE IsInstance(_, _)
IsInstance(e, cls) ==
  \/ e = cls
  \/ e \in DOMAIN Base /\ IsInstance(Base[e], cls)

\* The except clauses of analyze_request, in source order, with the signal
\* each one prints.
HandlersApiErrorFirst ==
  << [cls |-> "JSONDecodeError",    signal |-> "invalid response"],
     [cls |-> "APIError",           signal |-> "API error"],
     [cls |-> "RateLimitError",     signal |-> "rate limited"],
     [cls |-> "APIConnectionError", signal |-> "connection error"],
     [cls |-> "Exception",          signal |-> "unexpected error"] >>
HandlersNoCatchAll ==
  << [cls |-> "JSONDecodeError",    signal |-> "invalid response"],
     [cls |-> "RateLimitError",     signal |-> "rate limited"],
     [cls |-> "APIConnectionError", signal |-> "connection error"],
     [cls |-> "APIError",           signal |-> "API error"] >>
Handlers ==
  << [cls |-> "JSONDecodeError",    signal |-> "invalid response"],
     [cls |-> "RateLimitError",     signal |-> "rate limited"],
     [cls |-> "APIConnectionError", signal |-> "connection error"],
     [cls |-> "APIError",           signal |-> "API error"],
     [cls |-> "Exception",          signal |-> "unexpected error"] >>

Signals == {Handlers[k].signal : k \in 1..Len(Handlers)}

\* Index of the first except clause that matches e, 0 when none does.
FirstHandler(e) ==
  LET m == {k \in 1..Len(Handlers) : IsInstance(e, Handlers[k].cls)}
  IN  IF m = {} THEN 0 ELSE CHOOSE k \in m : \A j \in m : k <= j

\* ------------------------------------------------------------ JSON values
Str(s)  == [t |-> "str", s |-> s]
JNull   == [t |-> "null"]
JNum    == [t |-> "num"]
JList   == [t |-> "list"]
Obj(f)  == [t |-> "object", fields |-> f]

high   == <<"h","i","g","h">>
medium == <<"m","e","d","i","u","m">>
low    == <<"l","o","w">>

Keys == {"priority", "summary", "recommendation"}

\* Values the model lets the upstream put under each key.
PriorityStrings ==
  { high, <<"H","I","G","H">>, <<"L","o","w">>, medium,
    <<"U","r","g","e","n","t">>, <<"u","r","g","e","n","t">>, <<>> }
ValuesOf(key) ==
  IF key = "priority" THEN {Str(s) : s \in PriorityStrings} \cup {JNull, JNum}
  ELSE IF key = "summary" THEN {Str(<<"s">>)}
  ELSE {Str(<<"r">>)}

JsonObjects ==
  UNION { { Obj(f) : f \in {g \in [K -> UNION {ValuesOf(k) : k \in Keys}] :
                              \A k \in K : g[k] \in ValuesOf(k)} }
          : K \in SUBSET Keys }

\* message.content of a chat completion: None, a text that is not JSON,
\* or the text of a JSON value.
CNone        == [t |-> "none"]
CText        == [t |-> "text"]
CJson(v)     == [t |-> "json", value |-> v]
Contents     == {CNone, CText} \cup {CJson(v) : v \in JsonObjects \cup {JList, JNum}}

\* Outcome of client.chat.completions.create: it raises, or it returns a
\* response with no choice, or one whose first choice holds a content.
Raised(e)    == [kind |-> "raise", exc |-> e]
NoChoice     == [kind |-> "nochoice"]
Response(c)  == [kind |-> "response", content |-> c]
TransportErrors ==
  {"RateLimitError", "APIConnectionError", "APITimeoutError", "APIStatusError",
   "APIError", "RuntimeError", "ValueError"}
Outcomes ==
  {Raised(e) : e \in TransportErrors} \cup {NoChoice} \cup {Response(c) : c \in Contents}

\* ------------------------------------------------------------- LLMAnalysis
None == [kind |-> "None"]
LLMAnalysis(priority, summary, recommendation, raw_response) ==
  [kind |-> "LLMAnalysis", priority |-> priority, summary |-> summary,
   recommendation |-> recommendation, raw_response |-> raw_response]

\* LLMAnalysis.priority_emoji
priority_emoji(a) ==
  LET p == Lower(a.priority)
  IN  IF p = high THEN "red" ELSE IF p = medium THEN "yellow"
      ELSE IF p = low THEN "green" ELSE "white"

\* LLMAnalysis.priority_text
priority_text(a) ==
  LET p == Lower(a.priority)
  IN  IF p = high THEN "VYSOKIY" ELSE IF p = medium THEN "SREDNIY"
      ELSE IF p = low THEN "NIZKIY" ELSE "NEIZVESTNO"

\* main.PRIORITY_STYLES.get(analysis.priority, ("white", "bold white"))
PRIORITY_STYLES(a) ==
  IF a.priority = high THEN <<"red", "bold red">>
  ELSE IF a.priority = medium THEN <<"yellow", "bold yellow">>
  ELSE IF a.priority = low THEN <<"green", "bold green">>
  ELSE <<"white", "bold white">>

\* --------------------------------------------------------- analyze_request
\* LLMProcessor.is_available
is_availableEnabledOnly(en, cl) == en
is_available(en, cl) == en /\ cl # "None"

\* The guard of line 86; TRUE means "return None before any transport call".
TooShortRaw(d) == d = <<>> \/ Len(d) < 5
TooShort(d) == d = <<>> \/ Len(Strip(d)) < 5

Raise(e)  == [kind |-> "raise", exc |-> e]
Return(v) == [kind |-> "return", value |-> v]

\* json.loads(content)
JsonLoads(c) ==
  IF c.t = "none" THEN Raise("TypeError")
  ELSE IF c.t = "text" THEN Raise("JSONDecodeError")
  ELSE Return(c.value)

\* dict.get(key, default) on the fields of a JSON object
Get(f, key, default) == IF key \in DOMAIN f THEN f[key] ELSE default

\* Lines 135-146: from the transport's outcome to the constructed LLMAnalysis,
\* or to the exception raised on the way.
BuildStrict(content, result) ==
  IF result.t # "object" THEN Raise("AttributeError")
  ELSE IF ~(Keys \subseteq DOMAIN result.fields) THEN Raise("JSONDecodeError")
  ELSE LET priority == result.fields["priority"]
       IN  IF priority.t # "str" THEN Raise("AttributeError")
           ELSE Return(LLMAnalysis(Lower(priority.s), result.fields["summary"],
                                   result.fields["recommendation"], content))
BuildNormalised(content, result) ==
  IF result.t # "object" THEN Raise("AttributeError")
  ELSE LET priority == Get(result.fields, "priority", Str(medium))
       IN  IF priority.t # "str" THEN Raise("AttributeError")
           ELSE Return(LLMAnalysis(
                  IF Lower(priority.s) \in {high, medium, low}
                    THEN Lower(priority.s) ELSE medium,
                  Get(result.fields, "summary", Str(<<>>)),
                  Get(result.fields, "recommendation", Str(<<>>)),
                  content))
Build(content, result) ==
  IF result.t # "object" THEN Raise("AttributeError")
  ELSE LET priority == Get(result.fields, "priority", Str(medium))
       IN  IF priority.t # "str" THEN Raise("AttributeError")
           ELSE Return(LLMAnalysis(Lower(priority.s),
                                   Get(result.fields, "summary", Str(<<>>)),
                                   Get(result.fields, "recommendation", Str(<<>>)),
                                   content))

TryBody(outcome) ==
  IF outcome.kind = "raise" THEN Raise(outcome.exc)
  ELSE IF outcome.kind = "nochoice" THEN Raise("IndexError")
  ELSE LET loaded == JsonLoads(outcome.content)
       IN  IF loaded.kind = "raise" THEN loaded
           ELSE Build(outcome.content, loaded.value)

\* The user message of lines 114-121: the category (or a placeholder) and the text.
UserPrompt(d, c) ==
  [category |-> IF c # "" THEN c ELSE "Ne ukazana", description |-> d]
NoPrompt == [category |-> "", description |-> <<>>]

\* What one call of analyze_request does: its return value, the lines it
\* prints, the number of transport calls it makes, the prompt it sends, and
\* the exception that leaves it ("none" when it returns).
AnalyzeRequest(en, cl, dbg, d, c, outcome) ==
  IF ~is_available(en, cl) \/ TooShort(d)
  THEN [result |-> None, printed |-> <<>>, calls |-> 0, prompt |-> NoPrompt,
        escaped |-> "none"]
  ELSE LET body == TryBody(outcome)
           h    == IF body.kind = "raise" THEN FirstHandler(body.exc) ELSE 0
       IN  IF body.kind = "return"
           THEN [result |-> body.value, printed |-> <<>>, calls |-> 1,
                 prompt |-> UserPrompt(d, c), escaped |-> "none"]
           ELSE IF h = 0
           THEN [result |-> None, printed |-> <<>>, calls |-> 1,
                 prompt |-> UserPrompt(d, c), escaped |-> body.exc]
           ELSE [result |-> None,
                 printed |-> IF Handlers[h].cls = "JSONDecodeError" /\ dbg
                             THEN <<Handlers[h].signal, "debug: response text">>
                             ELSE <<Handlers[h].signal>>,
                 calls |-> 1, prompt |-> UserPrompt(d, c), escaped |-> "none"]

\* --------------------------------------------------------- test_connection
\* The except clauses of test_connection, in source order, with the line
\* each one prints.
ProbeHandlersNoCatchAll ==
  << [cls |-> "RateLimitError",     signal |-> "rate limited"],
     [cls |-> "APIConnectionError", signal |-> "connection error"],
     [cls |-> "APIError",           signal |-> "API error"] >>
ProbeHandlers ==
  << [cls |-> "RateLimitError",     signal |-> "rate limited"],
     [cls |-> "APIConnectionError", signal |-> "connection error"],
     [cls |-> "APIError",           signal |-> "API error"],
     [cls |-> "Exception",          signal |-> "unexpected error"] >>

\* Index of the first except clause of test_connection that matches e, 0 when
\* none does.
FirstProbeHandler(e) ==
  LET m == {k \in 1..Len(ProbeHandlers) : IsInstance(e, ProbeHandlers[k].cls)}
  IN  IF m = {} THEN 0 ELSE CHOOSE k \in m : \A j \in m : k <= j

\* Lines 226-241: the probe call and response.choices[0].message.content.strip().
ProbeBody(outcome) ==
  IF outcome.kind = "raise" THEN Raise(outcome.exc)
  ELSE IF outcome.kind = "nochoice" THEN Raise("IndexError")
  ELSE IF outcome.content.t = "none" THEN Raise("AttributeError")
  ELSE Return("True")

\* What one call of test_connection does: the value it returns ("True" or
\* "False"; "raised" when an exception leaves it), the lines it prints, the
\* number of transport calls it makes and the exception that leaves it.
TestConnection(en, cl, outcome) ==
  IF ~en
  THEN [result |-> "False", printed |-> <<"LLM disabled">>, calls |-> 0,
        escaped |-> "none"]
  ELSE IF cl = "None"
  THEN [result |-> "False", printed |-> <<"client not initialised">>, calls |-> 0,
        escaped |-> "none"]
  ELSE LET body == ProbeBody(outcome)
           h    == IF body.kind = "raise" THEN FirstProbeHandler(body.exc) ELSE 0
       IN  IF body.kind = "return"
           THEN [result |-> "True", printed |-> <<"connected", "answer">>,
                 calls |-> 1, escaped |-> "none"]
           ELSE IF h = 0
           THEN [result |-> "raised", printed |-> <<>>, calls |-> 1,
                 escaped |-> body.exc]
           ELSE [result |-> "False", printed |-> <<ProbeHandlers[h].signal>>,
                 calls |-> 1, escaped |-> "none"]

\* ------------------------------------------------------------ DataAnalyzer
\* Cells of a raw row: a string (Str), None, or a non-string value (an int).
NoneCell == [t |-> "none"]
IntCell(n) == [t |-> "int", n |-> n]

\* Python truthiness of a cell: "", None and 0 are falsy.
Truthy(c) ==
  IF c.t = "str" THEN c.s # <<>>
  ELSE IF c.t = "int" THEN c.n # 0
  ELSE FALSE

DigitChar == [d \in 0..9 |->
  CASE d = 0 -> "0" [] d = 1 -> "1" [] d = 2 -> "2" [] d = 3 -> "3" [] d = 4 -> "4"
    [] d = 5 -> "5" [] d = 6 -> "6" [] d = 7 -> "7" [] d = 8 -> "8" [] d = 9 -> "9"]

RECURSIVE Digits(_)
Digits(n) == IF n < 10 THEN <<DigitChar[n]>> ELSE Append(Digits(n \div 10), DigitChar[n % 10])

\* str(value) for a cell value (non-negative ints, None, strings).
PyStr(c) ==
  IF c.t = "str" THEN c.s
  ELSE IF c.t = "int" THEN Digits(c.n)
  ELSE <<"N","o","n","e">>

\* Lines 68-71: the cleaned category of a cell.
CleanCategory(c) ==
  IF c.t = "str" THEN Strip(c.s)
  ELSE IF Truthy(c) THEN Strip(PyStr(c))
  ELSE <<>>

\* Lines 66-78, for one row: the category it contributes, or that it is
\* skipped, or the exception the access raises.
ExtractCategoryUnchecked(row, cc) ==
  IF Len(row) < cc THEN [kind |-> "raise", exc |-> "IndexError"]
  ELSE IF CleanCategory(row[cc]) # <<>>
       THEN [kind |-> "category", value |-> CleanCategory(row[cc])]
       ELSE [kind |-> "skipped"]
ExtractCategoryNoStrip(row, cc) ==
  IF Len(row) >= cc
  THEN IF Truthy(row[cc])
       THEN [kind |-> "category", value |-> CleanCategory(row[cc])]
       ELSE [kind |-> "skipped"]
  ELSE [kind |-> "skipped"]
ExtractCategory(row, cc) ==
  IF Len(row) >= cc
  THEN IF CleanCategory(row[cc]) # <<>>
       THEN [kind |-> "category", value |-> CleanCategory(row[cc])]
       ELSE [kind |-> "skipped"]
  ELSE [kind |-> "skipped"]

\* enumerate(data[1:], start=2): the sheet rows of the data rows; sheet row k
\* is data[k - 1] in Python and the k-th element of the sequence here.
DataRowIndicesWithHeader(data) == 1..Len(data)
DataRowIndices(data) == 2..Len(data)

\* Lines 62-78: the loop up to sheet row k.
RECURSIVE ExtractUpTo(_, _, _)
ExtractUpTo(data, cc, k) ==
  IF k < 1 THEN [categories |-> <<>>, skipped_rows |-> <<>>, raised |-> "none"]
  ELSE LET prev == ExtractUpTo(data, cc, k - 1)
       IN  IF k \notin DataRowIndices(data) \/ prev.raised # "none" THEN prev
           ELSE LET c == ExtractCategory(data[k], cc)
                IN  IF c.kind = "category"
                    THEN [prev EXCEPT !.categories = Append(@, c.value)]
                    ELSE IF c.kind = "skipped"
                    THEN [prev EXCEPT !.skipped_rows = Append(@, k)]
                    ELSE [prev EXCEPT !.raised = c.exc]

\* collections.Counter(categories): <<key, count>> pairs in the order in
\* which the keys were first inserted.
RECURSIVE Counter(_)
Counter(categories) ==
  IF categories = <<>> THEN <<>>
  ELSE LET prev == Counter(SubSeq(categories, 1, Len(categories) - 1))
           x    == categories[Len(categories)]
       IN  IF \E j \in 1..Len(prev) : prev[j][1] = x
           THEN [j \in 1..Len(prev) |->
                   IF prev[j][1] = x THEN <<x, prev[j][2] + 1>> ELSE prev[j]]
           ELSE Append(prev, <<x, 1>>)

\* Counter.most_common(1)[0]: max(items, key=count), the first maximal item.
MostCommonLast(counts) ==
  counts[CHOOSE j \in 1..Len(counts) :
           /\ \A m \in 1..Len(counts) : counts[m][2] <= counts[j][2]
           /\ \A m \in (j + 1)..Len(counts) : counts[m][2] < counts[j][2]]
MostCommon(counts) ==
  counts[CHOOSE j \in 1..Len(counts) :
           /\ \A m \in 1..Len(counts) : counts[m][2] <= counts[j][2]
           /\ \A m \in 1..(j - 1) : counts[m][2] < counts[j][2]]

AnalysisResult(total_requests, total_rows, category_counts, mcc, mcn, raised) ==
  [total_requests |-> total_requests, total_rows |-> total_rows,
   category_counts |-> category_counts, most_common_category |-> mcc,
   most_common_count |-> mcn, raised |-> raised]

\* DataAnalyzer.analyze; raised names the exception that leaves it ("none"
\* when it returns), skipped the rows of skipped_rows.
Analyze(data, cc) ==
  IF Len(data) <= 1
  THEN [result |-> AnalysisResult(0, Len(data), <<>>, <<>>, 0, "none"), skipped |-> <<>>]
  ELSE LET e == ExtractUpTo(data, cc, Len(data))
       IN  IF e.raised # "none"
           THEN [result |-> AnalysisResult(0, 0, <<>>, <<>>, 0, e.raised),
                 skipped |-> e.skipped_rows]
           ELSE IF e.categories = <<>>
           THEN [result |-> AnalysisResult(0, Len(data), <<>>, <<>>, 0, "none"),
                 skipped |-> e.skipped_rows]
           ELSE LET counts == Counter(e.categories)
                    mc     == MostCommon(counts)
                IN  [result |-> AnalysisResult(Len(e.categories), Len(data), counts,
                                               mc[1], mc[2], "none"),
                     skipped |-> e.skipped_rows]

\* AnalysisResult.has_data
has_data(result) == result.total_requests > 0

\* sorted(items, key=count, reverse=True): a stable sort, so items of equal
\* count keep their order.  Insert puts x after every item whose count is
\* not smaller.
RECURSIVE SortedDesc(_)
InsertDescUnstable(sorted, x) ==
  LET before == {j \in 1..Len(sorted) : sorted[j][2] > x[2]}
      n == Cardinality(before)
  IN  SubSeq(sorted, 1, n) \o <<x>> \o SubSeq(sorted, n + 1, Len(sorted))
InsertDesc(sorted, x) ==
  LET before == {j \in 1..Len(sorted) : sorted[j][2] >= x[2]}
      n == Cardinality(before)
  IN  SubSeq(sorted, 1, n) \o <<x>> \o SubSeq(sorted, n + 1, Len(sorted))
SortedDesc(items) ==
  IF items = <<>> THEN <<>>
  ELSE InsertDesc(SortedDesc(SubSeq(items, 1, Len(items) - 1)), items[Len(items)])

\* AnalysisResult.categories_sorted
categories_sorted(result) == SortedDesc(result.category_counts)

\* Lines 138-142: the cell at a Python index, or "" when the row is too short.
CellAt(row, idx) == IF Len(row) > idx THEN row[idx + 1] ELSE Str(<<>>)

\* Lines 146-150: strings are stripped, None becomes "", anything else stays.
Clean(c) ==
  IF c.t = "str" THEN Str(Strip(c.s))
  ELSE IF c.t = "none" THEN Str(<<>>)
  ELSE c

\* Lines 136-150: the request dict of sheet row k.
RequestDataFreeTextAt3(row, k) ==
  [row_number  |-> k,
   id          |-> Clean(IF Len(row) > 0 /\ Truthy(row[1]) THEN row[1] ELSE Str(Digits(k))),
   date        |-> Clean(CellAt(row, 1)),
   category    |-> Clean(CellAt(row, 2)),
   choice      |-> Clean(CellAt(row, 3)),
   description |-> Clean(CellAt(row, 3))]
RequestData(row, k) ==
  [row_number  |-> k,
   id          |-> Clean(IF Len(row) > 0 /\ Truthy(row[1]) THEN row[1] ELSE Str(Digits(k))),
   date        |-> Clean(CellAt(row, 1)),
   category    |-> Clean(CellAt(row, 2)),
   choice      |-> Clean(CellAt(row, 3)),
   description |-> Clean(CellAt(row, 4))]

\* Line 153: only a request with a truthy description is kept.
KeepAll(r) == TRUE
Keep(r) == Truthy(r.description)

\* DataAnalyzer.get_requests_for_llm
RECURSIVE RequestsUpTo(_, _)
RequestsUpTo(data, k) ==
  IF k < 2 THEN <<>>
  ELSE LET prev == RequestsUpTo(data, k - 1)
           r    == RequestData(data[k], k)
       IN  IF Keep(r) THEN Append(prev, r) ELSE prev
get_requests_for_llm(data) ==
  IF Len(data) <= 1 THEN <<>> ELSE RequestsUpTo(data, Len(data))

\* ------------------------------------------------------------------- state
VARIABLES
  enabled,            \* LLMProcessor._enabled (config.llm.enabled at construction)
  client,             \* LLMProcessor.client: "OpenAI" or "None"
  debug,              \* config.debug
  pc,                 \* position of the caller / of analyze_multiple_requests
  requests,           \* the list passed to analyze_multiple_requests (dicts, mutated in place)
  analyzed_requests,  \* the list built by the loop: references (indices) into requests
  i,                  \* loop counter of enumerate(requests, 1)
  returned,           \* value returned by analyze_multiple_requests (indices into requests)
  sleeps,             \* number of time.sleep(0.5) calls made
  summary_line,       \* line 208-210: <<analyzed, total>> once printed
  trace,              \* history: start / finish of every analyze_request invocation
  results,            \* history: what analyze_request returned for item k
  printed,            \* failure signals and debug lines printed so far
  transport_calls,    \* number of chat.completions.create calls made so far
  description,        \* arguments and outcome of the latest analyze_request call
  category,
  response,
  analysis,
  escaped,            \* exception that left analyze_request ("none" when it returned)
  data,               \* the rows handed to DataAnalyzer (row 1 is the header)
  category_column,    \* DataAnalyzer.category_column
  dpc,                \* which DataAnalyzer calls have been made
  result,             \* the AnalysisResult returned by DataAnalyzer.analyze
  skipped_rows,       \* skipped_rows of the latest analyze call
  requests_for_llm,   \* the list returned by DataAnalyzer.get_requests_for_llm
  args_llm,           \* main: the --llm flag
  config_loaded,      \* main: config is not None
  main_run,           \* main: how the run ended and what it displayed
  connection          \* what LLMProcessor.test_connection returned ("not called" before)

vars == << enabled, client, debug, pc, requests, analyzed_requests, i, returned,
           sleeps, summary_line, trace, results, printed, transport_calls,
           description, category, response, analysis, escaped,
           data, category_column, dpc, result, skipped_rows, requests_for_llm,
           args_llm, config_loaded, main_run, connection >>

batchVars == << requests, analyzed_requests, i, returned, sleeps, summary_line,
                trace, results >>
callVars  == << description, category, response, analysis, escaped >>
dataVars  == << data, category_column, dpc, result, skipped_rows, requests_for_llm >>
mainVars  == << args_llm, config_loaded, main_run, connection >>

NotCalled == [kind |-> "notcalled"]

\* Free texts handed to analyze_request directly.
Descriptions ==
  { <<>>,
    <<"o","k">>,
    <<" "," ","o","k"," "," ">>,
    <<"h","e","l","l">>,
    <<"h","e","l","l","o">>,
    <<" ","h","e","l","l","o","\n">>,
    <<"a","b","c","d"," "," ">>,
    <<" "," "," "," "," ">> }
Categories == {"", "Billing"}

\* Free texts and transport outcomes used inside batches.
BatchDescriptions == { <<"h","e","l","l","o">>, <<"o","k">> }
BatchOutcomes ==
  { Response(CJson(Obj([priority |-> Str(<<"H","I","G","H">>),
                        summary |-> Str(<<"s">>),
                        recommendation |-> Str(<<"r">>)]))),
    Response(CJson(Obj([summary |-> Str(<<"s">>)]))),
    Response(CText),
    Raised("RateLimitError") }

\* A request dict as DataAnalyzer.get_requests_for_llm builds it (the fields
\* analyze_multiple_requests reads, and row_number); row k of the list is
\* sheet row k + 1.
Request(k, d) ==
  [row_number |-> k + 1, description |-> d, category |-> "Billing"]
Batches ==
  UNION { { [k \in 1..n |-> Request(k, ds[k])] : ds \in [1..n -> BatchDescriptions] }
          : n \in 0..MaxBatch }

\* request["llm_analysis"] = a
AnnotateFresh(r, a) == [llm_analysis |-> a, description |-> r.description]
Annotate(r, a) == ("llm_analysis" :> a) @@ r

\* LLMProcessor.__init__: LLM disabled; enabled with a client; enabled, but
\* the construction of the client raised.
ProcessorInit ==
  /\ \E c \in { <<FALSE, "None">>, <<TRUE, "OpenAI">>, <<TRUE, "None">> } :
       enabled = c[1] /\ client = c[2]
  /\ debug \in BOOLEAN

\* No call of the processor has been made yet.
BatchIdle ==
  /\ pc = "idle"
  /\ requests = <<>>
  /\ analyzed_requests = <<>>
  /\ i = 0
  /\ returned = <<>>
  /\ sleeps = 0
  /\ summary_line = <<>>
  /\ trace = <<>>
  /\ results = <<>>
  /\ printed = <<>>
  /\ transport_calls = 0
  /\ description = <<>>
  /\ category = ""
  /\ response = NotCalled
  /\ analysis = None
  /\ escaped = "none"

NoRun == [exit |-> "notrun"]

\* No DataAnalyzer call has been made yet.
DataIdle ==
  /\ dpc = "constructed"
  /\ result = AnalysisResult(0, 0, <<>>, <<>>, 0, "none")
  /\ skipped_rows = <<>>
  /\ requests_for_llm = <<>>

MainIdle ==
  /\ args_llm = FALSE
  /\ config_loaded = TRUE
  /\ main_run = NoRun
  /\ connection = "not called"

Init ==
  /\ ProcessorInit
  /\ BatchIdle
  /\ data = <<>>
  /\ category_column = 3
  /\ DataIdle
  /\ MainIdle

\* One call of analyze_request(d, c) whose transport call, if made, ends as outcome.
Call(d, c, outcome) ==
  LET r == AnalyzeRequest(enabled, client, debug, d, c, outcome)
  IN  /\ description' = d
      /\ category' = c
      /\ response' = IF r.calls = 0 THEN NotCalled ELSE outcome
      /\ analysis' = r.result
      /\ escaped' = r.escaped
      /\ printed' = printed \o r.printed
      /\ transport_calls' = transport_calls + r.calls

\* A caller invokes analyze_request directly.
AnalyzeRequestDirect ==
  /\ pc = "idle"
  /\ \E d \in Descriptions, c \in Categories, o \in Outcomes : Call(d, c, o)
  /\ pc' = IF escaped' = "none" THEN "returned" ELSE "raised"
  /\ UNCHANGED << dataVars, mainVars, enabled, client, debug, batchVars >>

\* analyze_multiple_requests, lines 178-188: the two early returns, or the
\* start of the loop.
Enter ==
  /\ pc = "idle"
  /\ \E reqs \in Batches :
       /\ requests' = reqs
       /\ IF ~is_available(enabled, client) \/ reqs = <<>>
          THEN /\ pc' = "done"
               /\ i' = i
          ELSE /\ pc' = "loop"
               /\ i' = 1
  /\ analyzed_requests' = <<>>
  /\ returned' = <<>>
  /\ UNCHANGED << dataVars, mainVars, enabled, client, debug, sleeps, summary_line, trace, results,
                  printed, transport_calls, callVars >>

\* Line 193: analyze_request is invoked for item i.
StartItem ==
  /\ pc = "loop"
  /\ i <= Len(requests)
  /\ pc' = "analyze"
  /\ trace' = Append(trace, <<"start", i>>)
  /\ UNCHANGED << dataVars, mainVars, enabled, client, debug, requests, analyzed_requests, i, returned,
                  sleeps, summary_line, results, printed, transport_calls, callVars >>

\* Lines 198-200: only a truthy analysis puts the request in analyzed_requests.
CollectAll(analyzed, idx, a) == Append(analyzed, idx)
CollectPrepend(analyzed, idx, a) == IF a # None THEN <<idx>> \o analyzed ELSE analyzed
Collect(analyzed, idx, a) == IF a # None THEN Append(analyzed, idx) ELSE analyzed

\* Lines 198-206 and the for statement: where control goes after item idx of n.
AfterItemSleepAlways(a, idx, n) ==
  IF idx < n THEN [pc |-> "sleep", i |-> idx]
  ELSE [pc |-> "loop", i |-> idx + 1]
AfterItemBreak(a, idx, n) ==
  IF a # None /\ idx < n THEN [pc |-> "sleep", i |-> idx]
  ELSE IF a # None THEN [pc |-> "loop", i |-> idx + 1]
  ELSE [pc |-> "loop", i |-> n + 1]
AfterItem(a, idx, n) ==
  IF a # None /\ idx < n THEN [pc |-> "sleep", i |-> idx]
  ELSE [pc |-> "loop", i |-> idx + 1]

\* Lines 193-206: analyze_request returns for item i and the item is annotated.
FinishItem ==
  /\ pc = "analyze"
  /\ \E o \in BatchOutcomes : Call(requests[i].description, requests[i].category, o)
  /\ IF escaped' # "none"
     THEN /\ pc' = "raised"
          /\ UNCHANGED << requests, analyzed_requests, i, trace, results >>
     ELSE /\ trace' = Append(trace, <<"finish", i>>)
          /\ results' = Append(results, analysis')
          /\ requests' = [requests EXCEPT ![i] = Annotate(@, analysis')]
          /\ analyzed_requests' = Collect(analyzed_requests, i, analysis')
          /\ pc' = AfterItem(analysis', i, Len(requests)).pc
          /\ i' = AfterItem(analysis', i, Len(requests)).i
  /\ UNCHANGED << dataVars, mainVars, enabled, client, debug, returned, sleeps, summary_line >>

\* Lines 203-204: time.sleep(0.5) after a successful item that is not the last.
Sleep ==
  /\ pc = "sleep"
  /\ sleeps' = sleeps + 1
  /\ i' = i + 1
  /\ pc' = "loop"
  /\ UNCHANGED << dataVars, mainVars, enabled, client, debug, requests, analyzed_requests, returned,
                  summary_line, trace, results, printed, transport_calls, callVars >>

\* Lines 208-212: the loop is over; the count is printed and the list returned.
FinishReturnInput ==
  /\ pc = "loop"
  /\ i > Len(requests)
  /\ summary_line' = << Len(analyzed_requests), Len(requests) >>
  /\ returned' = [k \in 1..Len(requests) |-> k]
  /\ pc' = "done"
  /\ UNCHANGED << dataVars, mainVars, enabled, client, debug, requests, analyzed_requests, i, sleeps,
                  trace, results, printed, transport_calls, callVars >>
Finish ==
  /\ pc = "loop"
  /\ i > Len(requests)
  /\ summary_line' = << Len(analyzed_requests), Len(requests) >>
  /\ returned' = analyzed_requests
  /\ pc' = "done"
  /\ UNCHANGED << dataVars, mainVars, enabled, client, debug, requests, analyzed_requests, i, sleeps,
                  trace, results, printed, transport_calls, callVars >>

Next ==
  \/ AnalyzeRequestDirect
  \/ Enter
  \/ StartItem
  \/ FinishItem
  \/ Sleep
  \/ Finish

Spec == Init /\ [][Next]_vars

\* The dicts analyze_multiple_requests returned.
ReturnedRecords == [k \in 1..Len(returned) |-> requests[returned[k]]]

\* main.print_statistics, line 409: "Total analyzed requests".
TotalAnalyzed == Len(returned)

TypeOK ==
  /\ pc \in {"idle", "returned", "raised", "loop", "analyze", "sleep", "done",
            "interrupted"}
  /\ i \in 0..(MaxBatch + 1)
  /\ transport_calls \in 0..MaxBatch
  /\ sleeps \in 0..MaxBatch

\* ------------------------------------------------------------ properties
Available == is_available(enabled, client)
Range(f) == {f[k] : k \in DOMAIN f}
HasAnalysis(r) == "llm_analysis" \in DOMAIN r /\ r["llm_analysis"] # None
HasNull(r) == "llm_analysis" \in DOMAIN r /\ r["llm_analysis"] = None

\* C1: with an available client and a non-empty batch, analyze_request is
\* invoked exactly once per record, in input order, each invocation starting
\* only after the previous one finished; a failure neither stops the batch
\* nor is retried, and the failed record carries llm_analysis = None.
C1_OncePerRecordInOrder ==
  /\ \A k \in 1..Len(trace) :
       trace[k] = << IF k % 2 = 1 THEN "start" ELSE "finish", (k + 1) \div 2 >>
  /\ \A k \in 1..Len(results) : results[k] = None => HasNull(requests[k])
  /\ trace # <<>> => pc # "raised"
  /\ (pc = "done" /\ Available /\ requests # <<>>) =>
        /\ Len(trace) = 2 * Len(requests)
        /\ Len(results) = Len(requests)

C1_Witness ==
  /\ pc = "done"
  /\ Len(results) >= 3
  /\ results[1] = None /\ results[2] # None /\ results[3] = None
  /\ HasNull(requests[1]) /\ HasNull(requests[3])

\* C2 as stated: a failed record is still in the returned sequence, whose
\* length equals the input's whenever the client is available.
C2_FailedRecordReturned ==
  (pc = "done" /\ Available) =>
     /\ Len(returned) = Len(requests)
     /\ \A k \in 1..Len(results) : results[k] = None => k \in Range(returned)

\* C2 amended: a failed record is annotated null in place on the input record
\* but is left out of the returned sequence, which holds exactly the records
\* with a non-null analysis; its length equals the input's only when every
\* call succeeded.
C2_FailedRecordAnnotatedNotReturned ==
  (pc = "done" /\ Available) =>
     /\ \A k \in 1..Len(results) :
          results[k] = None => HasNull(requests[k]) /\ k \notin Range(returned)
     /\ Range(returned) = {k \in 1..Len(results) : results[k] # None}
     /\ (Len(returned) = Len(requests)) <=> (\A k \in 1..Len(results) : results[k] # None)

C2_Witness ==
  /\ pc = "done"
  /\ Len(results) = 2
  /\ results[1] = None /\ results[2] # None
  /\ HasNull(requests[1])
  /\ returned = <<2>>

\* C3: the returned sequence keeps the input order, without duplicates, and
\* when every call succeeded its row_numbers are the input's, in order.
C3_OrderPreserved ==
  /\ \A a, b \in 1..Len(analyzed_requests) :
       a < b => analyzed_requests[a] < analyzed_requests[b]
  /\ pc = "done" =>
       /\ \A a, b \in 1..Len(returned) :
            a < b => ReturnedRecords[a].row_number < ReturnedRecords[b].row_number
       /\ (requests # <<>> /\ \A k \in 1..Len(requests) : HasAnalysis(requests[k])) =>
            [k \in 1..Len(returned) |-> ReturnedRecords[k].row_number]
              = [k \in 1..Len(requests) |-> requests[k].row_number]

C3_Witness ==
  /\ pc = "done"
  /\ Len(requests) >= 3
  /\ \A k \in 1..Len(requests) : HasAnalysis(requests[k])
  /\ Len(returned) = Len(requests)

\* C4: with the client unavailable, or an empty batch, the call returns an
\* empty sequence, and makes no transport call, no pacing delay and no
\* change to any input record.
C4_ShortCircuit ==
  (pc = "done" /\ (~(enabled /\ client = "OpenAI") \/ requests = <<>>)) =>
     /\ returned = <<>>
     /\ transport_calls = 0
     /\ sleeps = 0
     /\ trace = <<>>
     /\ \A k \in 1..Len(requests) : "llm_analysis" \notin DOMAIN requests[k]

C4_Witness ==
  /\ pc = "done"
  /\ enabled /\ client = "None"
  /\ Len(requests) >= 2
  /\ returned = <<>>

\* The five failure signals of the Enrichment Client.
FailureSignals ==
  {"invalid response", "rate limited", "connection error", "API error",
   "unexpected error"}
IsFailureSignal(x) == x \in FailureSignals
SignalsPrinted == SelectSeq(printed, IsFailureSignal)
DirectCallOver == pc \in {"returned", "raised"}

C6_ExpectedSignal ==
  IF response.kind = "raise"
  THEN CASE response.exc = "RateLimitError" -> "rate limited"
         [] response.exc \in {"APIConnectionError", "APITimeoutError"} -> "connection error"
         [] response.exc \in {"APIStatusError", "APIError"} -> "API error"
         [] OTHER -> "unexpected error"
  ELSE IF response = Response(CText) THEN "invalid response"
  ELSE "unexpected error"

C6_OneSignalPerFailure ==
  (pc = "returned" /\ response # NotCalled) =>
     IF analysis = None
     THEN SignalsPrinted = << C6_ExpectedSignal >>
     ELSE SignalsPrinted = <<>>

C6_Witness ==
  /\ pc = "returned"
  /\ response = Raised("RateLimitError")
  /\ printed = <<"rate limited">>
  /\ analysis = None

\* Number of characters left once leading and trailing whitespace is removed:
\* the positions lying between the first and the last non-whitespace character.
TrimmedLen(d) ==
  Cardinality({k \in 1..Len(d) :
                 /\ \E a \in 1..k : d[a] \notin {" ", "\t", "\n"}
                 /\ \E b \in k..Len(d) : d[b] \notin {" ", "\t", "\n"}})

\* C7: analyze_request makes a transport call only if the client is available
\* and the trimmed free text has at least 5 characters; otherwise it returns
\* None, makes no transport call and raises nothing.
C7_PreconditionsGuardTransport ==
  DirectCallOver =>
     IF enabled /\ client = "OpenAI" /\ TrimmedLen(description) >= 5
     THEN transport_calls = 1 /\ response # NotCalled
     ELSE /\ transport_calls = 0
          /\ response = NotCalled
          /\ analysis = None
          /\ pc = "returned"
          /\ printed = <<>>

C7_Witness ==
  /\ pc = "returned"
  /\ enabled /\ client = "OpenAI"
  /\ description = <<"a","b","c","d"," "," ">>
  /\ transport_calls = 0
  /\ analysis = None

\* The response is a JSON object that has all three keys.
HasAllKeys ==
  /\ response.kind = "response"
  /\ response.content.t = "json"
  /\ response.content.value.t = "object"
  /\ {"priority", "summary", "recommendation"} \subseteq DOMAIN response.content.value.fields
IsJsonObject ==
  /\ response.kind = "response"
  /\ response.content.t = "json"
  /\ response.content.value.t = "object"

\* C8 as stated: every response that deviates from the expected JSON object,
\* an object with a missing key included, takes the "invalid response" path
\* and yields no result.
C8_DeviationIsInvalidResponse ==
  (pc = "returned" /\ response # NotCalled /\ response.kind = "response" /\ ~HasAllKeys) =>
     /\ analysis = None
     /\ SignalsPrinted = <<"invalid response">>

\* C8 amended: a body that is not JSON takes the "invalid response" path and
\* yields no result; a JSON object with missing keys is not a failure: it
\* yields a result in which an absent priority is "medium" and an absent
\* summary or recommendation is the empty string, and no signal is printed.
C8_MissingKeysDefaulted ==
  (pc = "returned" /\ response # NotCalled /\ response.kind = "response") =>
     /\ response.content = CText =>
          analysis = None /\ SignalsPrinted = <<"invalid response">>
     /\ (IsJsonObject /\ ~HasAllKeys
         /\ ("priority" \in DOMAIN response.content.value.fields
               => response.content.value.fields["priority"].t = "str")) =>
          LET f == response.content.value.fields
          IN  /\ analysis # None
              /\ SignalsPrinted = <<>>
              /\ "priority" \notin DOMAIN f => analysis.priority = medium
              /\ "summary" \notin DOMAIN f => analysis.summary = Str(<<>>)
              /\ "recommendation" \notin DOMAIN f => analysis.recommendation = Str(<<>>)

C8_Witness ==
  /\ pc = "returned"
  /\ response = Response(CJson(Obj([summary |-> Str(<<"s">>)])))
  /\ analysis # None
  /\ analysis.priority = medium
  /\ analysis.recommendation = Str(<<>>)
  /\ printed = <<>>

\* The lower-case form of each priority string the upstream may send.
C9_Lowered(p) ==
  CASE p = <<"H","I","G","H">> -> <<"h","i","g","h">>
    [] p = <<"L","o","w">> -> <<"l","o","w">>
    [] p = <<"U","r","g","e","n","t">> -> <<"u","r","g","e","n","t">>
    [] OTHER -> p

\* C9: the stored priority is the lower-cased priority string of the response,
\* whatever the string (values outside high / medium / low are kept); only an
\* absent key gives "medium", an absent summary or recommendation gives the
\* empty string, and only the display mappings fall back to "unknown".
C9_PriorityStoredRaw ==
  (pc = "returned" /\ analysis # None) =>
     LET f == response.content.value.fields
     IN  /\ IsJsonObject
         /\ analysis.priority =
              IF "priority" \in DOMAIN f THEN C9_Lowered(f["priority"].s) ELSE medium
         /\ analysis.summary = IF "summary" \in DOMAIN f THEN f["summary"] ELSE Str(<<>>)
         /\ analysis.recommendation =
              IF "recommendation" \in DOMAIN f THEN f["recommendation"] ELSE Str(<<>>)
         /\ analysis.raw_response = response.content
         /\ (priority_text(analysis) = "NEIZVESTNO")
              <=> analysis.priority \notin {high, medium, low}
         /\ (priority_emoji(analysis) = "white")
              <=> analysis.priority \notin {high, medium, low}
         /\ (PRIORITY_STYLES(analysis) = <<"white", "bold white">>)
              <=> analysis.priority \notin {high, medium, low}

C9_Witness ==
  /\ pc = "returned"
  /\ analysis # None
  /\ IsJsonObject
  /\ "priority" \in DOMAIN response.content.value.fields
  /\ response.content.value.fields["priority"] = Str(<<"U","r","g","e","n","t">>)
  /\ analysis.priority = <<"u","r","g","e","n","t">>
  /\ priority_text(analysis) = "NEIZVESTNO"

\* C10: the analyzed count reported to the caller (the length of the returned
\* sequence, and the count printed at the end of the batch) is the number of
\* input records with a non-null analysis, and every returned record has one.
C10_AnalyzedCount ==
  pc = "done" =>
     /\ TotalAnalyzed = Cardinality({k \in 1..Len(requests) : HasAnalysis(requests[k])})
     /\ TotalAnalyzed = Cardinality({k \in 1..Len(results) : results[k] # None})
     /\ \A k \in 1..Len(returned) : HasAnalysis(ReturnedRecords[k])
     /\ summary_line # <<>> => summary_line = << TotalAnalyzed, Len(requests) >>

C10_Witness ==
  /\ pc = "done"
  /\ Len(requests) >= 3
  /\ TotalAnalyzed = 2
  /\ summary_line = << 2, Len(requests) >>
  /\ HasNull(requests[2])

\* The argument of time.sleep in line 204, in tenths of a second (0.5 s).
PacingDelayTenths == 5
\* Total pacing delay imposed so far, in tenths of a second.
TotalDelayTenths == sleeps * PacingDelayTenths

\* C11: one pacing delay of 0.5 follows every successful item that is not the
\* last, before the next call starts; none follows the last item or a failed
\* item, so the delays number the successful items at positions 1..N-1.
C11_DelayAfterSuccessOnly ==
  /\ sleeps = Cardinality({k \in 1..Len(results) :
                             results[k] # None /\ k < Len(requests) /\ k < i})
  /\ TotalDelayTenths = 5 * sleeps
  /\ pc = "sleep" => results[i] # None /\ i < Len(requests)
  /\ pc = "done" =>
       sleeps = Cardinality({k \in 1..(Len(results) - 1) : results[k] # None})

C11_Witness ==
  /\ pc = "done"
  /\ Len(results) >= 3
  /\ results[1] # None /\ results[2] = None /\ results[3] # None
  /\ sleeps = 1

\* ------------------------------------------------- DataAnalyzer: inputs
\* Largest number of data rows (the header not counted) in a row set.
MaxDataRows == 3

HeaderRow ==
  << Str(<<"i","d">>), Str(<<"d","a","t","e">>), Str(<<"c","a","t">>), Str(<<"c","h">>), Str(<<"d","e","s","c">>) >>
RowFull ==
  << Str(<<"1">>), Str(<<"d","1">>), Str(<<"A">>), Str(<<"x">>), Str(<<" ","h","e","l","l","o"," ">>) >>
RowPadded ==
  << Str(<<"2">>), Str(<<"d","1">>), Str(<<" ","B"," ">>), Str(<<"x">>), Str(<<" "," ">>) >>
RowFourCells ==
  << Str(<<"3">>), Str(<<"d","1">>), Str(<<"B">>), Str(<<"h","e","l","l","o">>) >>
RowNoCategory ==
  << Str(<<"4">>), Str(<<"d","1">>), Str(<<>>), Str(<<"x">>), Str(<<"h","e","l","l","o">>) >>
RowShort ==
  << Str(<<"5">>), Str(<<"d","1">>) >>
RowInts ==
  << NoneCell, Str(<<"d","1">>), IntCell(7), Str(<<"A">>), IntCell(7) >>
RowZeros ==
  << Str(<<>>), Str(<<"d","1">>), IntCell(0), Str(<<"x">>), IntCell(0) >>
RowEmpty ==
  <<  >>
RowNones ==
  << Str(<<"9">>), Str(<<"d","1">>), Str(<<"A">>), NoneCell, NoneCell >>
RowPool ==
  { RowFull, RowPadded, RowFourCells, RowNoCategory, RowShort, RowInts, RowZeros, RowEmpty, RowNones }

\* The row set of the concrete scenario (4-cell rows: id, date, category, text).
ExampleData ==
  << HeaderRow,
     << Str(<<"1">>),
        Str(<<"2","0","2","4","-","0","1","-","0","1">>),
        Str(<<"B","i","l","l","i","n","g">>),
        Str(<<"A","p","p"," ","c","r","a","s","h","e","s"," ","o","n"," ","l","o","g","i","n">>) >>,
     << Str(<<"2">>),
        Str(<<"2","0","2","4","-","0","1","-","0","2">>),
        Str(<<"B","i","l","l","i","n","g">>),
        Str(<<>>) >>,
     << Str(<<"3">>),
        Str(<<"2","0","2","4","-","0","1","-","0","3">>),
        Str(<<"S","u","p","p","o","r","t">>),
        Str(<<"S","l","o","w"," ","r","e","s","p","o","n","s","e">>) >> >>
\* The same rows in the layout of lines 133-134 (id, date, category, choice, text).
ExampleDataFiveCells ==
  << HeaderRow,
     << Str(<<"1">>),
        Str(<<"2","0","2","4","-","0","1","-","0","1">>),
        Str(<<"B","i","l","l","i","n","g">>),
        Str(<<"x">>),
        Str(<<"A","p","p"," ","c","r","a","s","h","e","s"," ","o","n"," ","l","o","g","i","n">>) >>,
     << Str(<<"2">>),
        Str(<<"2","0","2","4","-","0","1","-","0","2">>),
        Str(<<"B","i","l","l","i","n","g">>),
        Str(<<"x">>),
        Str(<<>>) >>,
     << Str(<<"3">>),
        Str(<<"2","0","2","4","-","0","1","-","0","3">>),
        Str(<<"S","u","p","p","o","r","t">>),
        Str(<<"x">>),
        Str(<<"S","l","o","w"," ","r","e","s","p","o","n","s","e">>) >> >>

\* Four data rows with a tie between the second and third most common category.
TieData == << HeaderRow, RowPadded, RowFull, RowFull, RowInts >>

DataSets ==
  {<<>>, ExampleData, ExampleDataFiveCells, TieData}
    \cup UNION { { <<HeaderRow>> \o rs : rs \in [1..n -> RowPool] } : n \in 0..MaxDataRows }

\* Values of category_column (config allows 1..26; no row has more than 5 cells).
CategoryColumns == {1, 3, 4, 5, 26}

\* --------------------------------------------------- DataAnalyzer: actions
\* DataAnalyzer(category_column) is constructed and handed a row set.
InitData ==
  /\ enabled = FALSE /\ client = "None" /\ debug = FALSE
  /\ BatchIdle
  /\ data \in DataSets
  /\ category_column \in CategoryColumns
  /\ DataIdle
  /\ MainIdle

\* analyzer.analyze(data)
DoAnalyze ==
  /\ dpc = "constructed"
  /\ result' = Analyze(data, category_column).result
  /\ skipped_rows' = Analyze(data, category_column).skipped
  /\ dpc' = "analyzed"
  /\ UNCHANGED << enabled, client, debug, pc, batchVars, printed, transport_calls,
                  callVars, data, category_column, requests_for_llm, mainVars >>

\* analyzer.get_requests_for_llm(data)
DoGetRequests ==
  /\ dpc = "analyzed"
  /\ requests_for_llm' = get_requests_for_llm(data)
  /\ dpc' = "prepared"
  /\ UNCHANGED << enabled, client, debug, pc, batchVars, printed, transport_calls,
                  callVars, data, category_column, result, skipped_rows, mainVars >>

NextData ==
  \/ DoAnalyze
  \/ DoGetRequests

SpecData == InitData /\ [][NextData]_vars

\* ------------------------------------------------ DataAnalyzer: properties
Analyzed == dpc \in {"analyzed", "prepared"}

RECURSIVE SumCounts(_)
SumCounts(counts) ==
  IF counts = <<>> THEN 0 ELSE counts[1][2] + SumCounts(Tail(counts))

ZeroResult ==
  /\ result.total_requests = 0
  /\ result.category_counts = <<>>
  /\ result.most_common_category = <<>>
  /\ result.most_common_count = 0

\* The category cell of sheet row k is a string or None, or the row has none.
PlainCategoryCell(k) ==
  Len(data[k]) >= category_column => data[k][category_column].t \in {"str", "none"}

\* Sheet row k has a category cell that is a string, non-empty once trimmed.
UsableRow(k) ==
  /\ Len(data[k]) >= category_column
  /\ data[k][category_column].t = "str"
  /\ TrimmedLen(data[k][category_column].s) > 0

\* First sheet row counted under category c.
FirstRowOf(c) ==
  LET rows == {k \in 2..Len(data) :
                 /\ ExtractCategory(data[k], category_column).kind = "category"
                 /\ ExtractCategory(data[k], category_column).value = c}
  IN  CHOOSE k \in rows : \A j \in rows : k <= j

\* C12: the counts sum to total_requests, total_rows is the number of rows
\* with the header, and total_requests <= total_rows - 1 for a non-empty set.
C12_CountsSumToTotal ==
  Analyzed =>
     /\ SumCounts(result.category_counts) = result.total_requests
     /\ result.total_rows = Len(data)
     /\ Len(data) >= 1 => result.total_requests <= result.total_rows - 1

C12_Witness ==
  /\ Analyzed
  /\ Len(data) = 4
  /\ result.total_requests = 3
  /\ result.total_rows = 4
  /\ Len(result.category_counts) = 2

\* C13: most_common_count is the largest count and belongs to
\* most_common_category; among the categories with the largest count the one
\* first met in the data rows is chosen.
C13_MostCommonFirstMax ==
  (Analyzed /\ result.category_counts # <<>>) =>
     LET counts == result.category_counts
     IN  /\ \A j \in 1..Len(counts) : counts[j][2] <= result.most_common_count
         /\ \E j \in 1..Len(counts) :
              counts[j] = << result.most_common_category, result.most_common_count >>
         /\ \A j \in 1..Len(counts) :
              (counts[j][2] = result.most_common_count
                 /\ counts[j][1] # result.most_common_category)
                => FirstRowOf(result.most_common_category) < FirstRowOf(counts[j][1])

C13_Witness ==
  /\ Analyzed
  /\ category_column = 3
  /\ Len(data) = 4
  /\ result.category_counts = << << <<"B">>, 1 >>, << <<"A">>, 1 >> >>
  /\ result.most_common_category = <<"B">>
  /\ result.most_common_count = 1

\* C14: analyze never raises; for at most one row, or when no data row has a
\* usable category (short rows, empty or whitespace-only or None cells), it
\* returns total_requests = 0, no category, "" and 0.
C14_EmptyInputZeroResult ==
  Analyzed =>
     /\ result.raised = "none"
     /\ (Len(data) <= 1 \/ \A k \in 2..Len(data) : PlainCategoryCell(k) /\ ~UsableRow(k))
          => ZeroResult /\ result.total_rows = Len(data)

C14_Witness ==
  /\ Analyzed
  /\ Len(data) = 4
  /\ category_column = 3
  /\ data[2] = RowShort /\ data[3] = RowNoCategory /\ data[4] = RowEmpty
  /\ ZeroResult
  /\ result.raised = "none"

\* C15: a data row is counted iff it has at least category_column cells and
\* its category cell is non-empty once trimmed; every other data row is in
\* skipped_rows, so total_requests + skipped = number of data rows.
C15_CountedIffUsable ==
  (Analyzed /\ Len(data) > 1) =>
     /\ result.total_requests + Len(skipped_rows) = Len(data) - 1
     /\ \A a, b \in 1..Len(skipped_rows) : a < b => skipped_rows[a] < skipped_rows[b]
     /\ \A k \in 2..Len(data) :
          PlainCategoryCell(k) => (k \in Range(skipped_rows) <=> ~UsableRow(k))

C15_Witness ==
  /\ Analyzed
  /\ category_column = 5
  /\ Len(data) = 4
  /\ data[2] = RowPadded /\ data[3] = RowFull /\ data[4] = RowFourCells
  /\ skipped_rows = <<2, 4>>
  /\ result.total_requests = 1

\* C16: categories_sorted holds every (category, count) pair of
\* category_counts once, by count descending, pairs of equal count in the
\* order in which their categories were first met.
C16_SortedStable ==
  Analyzed =>
     LET srt == categories_sorted(result)
         counts == result.category_counts
     IN  /\ Len(srt) = Len(counts)
         /\ Range(srt) = Range(counts)
         /\ \A a, b \in 1..Len(srt) :
              a < b => /\ srt[a][2] >= srt[b][2]
                       /\ srt[a][2] = srt[b][2]
                            => FirstRowOf(srt[a][1]) < FirstRowOf(srt[b][1])

C16_Witness ==
  /\ Analyzed
  /\ data = TieData
  /\ category_column = 3
  /\ result.category_counts = << << <<"B">>, 1 >>, << <<"A">>, 2 >>, << <<"7">>, 1 >> >>
  /\ categories_sorted(result) = << << <<"A">>, 2 >>, << <<"B">>, 1 >>, << <<"7">>, 1 >> >>

Prepared == dpc = "prepared"
RowNumbers == [j \in 1..Len(requests_for_llm) |-> requests_for_llm[j].row_number]

\* The fifth cell of sheet row k (the description of lines 133-142) is a
\* string or None, or the row has none.
PlainTextCell(k) == Len(data[k]) >= 5 => data[k][5].t \in {"str", "none"}

\* Sheet row k has a fifth cell that is a string, non-empty once trimmed.
HasFreeText(k) ==
  /\ Len(data[k]) >= 5
  /\ data[k][5].t = "str"
  /\ TrimmedLen(data[k][5].s) > 0

\* C17: the candidate list holds exactly the data rows whose free-text cell is
\* non-empty once trimmed, in row order; a row whose free text is empty,
\* whitespace-only, None or missing is never in it, yet is counted in the
\* statistics when its category is usable.
C17_CandidatesHaveFreeText ==
  Prepared =>
     /\ \A a, b \in 1..Len(RowNumbers) : a < b => RowNumbers[a] < RowNumbers[b]
     /\ Range(RowNumbers) \subseteq 2..Len(data)
     /\ \A k \in 2..Len(data) :
          PlainTextCell(k) => (k \in Range(RowNumbers) <=> HasFreeText(k))
     /\ \A k \in 2..Len(data) :
          (k \notin Range(RowNumbers) /\ UsableRow(k)) => k \notin Range(skipped_rows)

C17_Witness ==
  /\ Prepared
  /\ category_column = 3
  /\ Len(data) = 4
  /\ data[2] = RowPadded /\ data[3] = RowFull /\ data[4] = RowNones
  /\ RowNumbers = <<3>>
  /\ result.total_requests = 3

\* C18 as stated: the free text is the cell at 0-indexed position 3 and
\* row_number is the row index plus 1, so the three rows of the scenario give
\* the candidates 2 and 4.
C18_FreeTextAtPosition3 ==
  Prepared =>
     /\ \A j \in 1..Len(requests_for_llm) :
          LET k == requests_for_llm[j].row_number
          IN  (Len(data[k]) >= 4 /\ data[k][4].t = "str")
                => requests_for_llm[j].description = Str(Strip(data[k][4].s))
     /\ data = ExampleData => RowNumbers = <<2, 4>>

\* C18 amended: the free text is the cell at 0-indexed position 4 (the fifth
\* cell, after id, date, category, choice) and row_number is the row index
\* plus 1 (first data row = 2); the 4-cell rows of the scenario give no
\* candidate, and the same rows with the text in the fifth cell give 2 and 4.
C18_FreeTextAtPosition4 ==
  Prepared =>
     /\ \A j \in 1..Len(requests_for_llm) :
          LET k == requests_for_llm[j].row_number
          IN  /\ k \in 2..Len(data)
              /\ Len(data[k]) >= 5
              /\ data[k][5].t = "str"
                   => requests_for_llm[j].description = Str(Strip(data[k][5].s))
     /\ data = ExampleData => RowNumbers = <<>>
     /\ data = ExampleDataFiveCells => RowNumbers = <<2, 4>>

C18_Witness ==
  /\ Prepared
  /\ data = ExampleDataFiveCells
  /\ RowNumbers = <<2, 4>>
  /\ requests_for_llm[2].description =
       Str(<<"S","l","o","w"," ","r","e","s","p","o","n","s","e">>)

\* C19: non-string cells are stringified and only None or missing cells
\* become "": analyze counts an int category cell under its string form, and
\* every field id, date, category, description of a request is a string.
C19_NonStringStringified ==
  /\ Analyzed =>
       \A k \in 2..Len(data) :
         (Len(data[k]) >= category_column /\ data[k][category_column].t = "int") =>
            /\ k \notin Range(skipped_rows)
            /\ \E j \in 1..Len(result.category_counts) :
                 result.category_counts[j][1] =
                   IF data[k][category_column].n = 0 THEN <<"0">> ELSE <<"7">>
  /\ Prepared =>
       \A j \in 1..Len(requests_for_llm) :
         /\ requests_for_llm[j].id.t = "str"
         /\ requests_for_llm[j].date.t = "str"
         /\ requests_for_llm[j].category.t = "str"
         /\ requests_for_llm[j].description.t = "str"

\* C22: a data row that analyze skips (category cell empty once trimmed, or
\* row shorter than category_column) yields no request record: every
\* enrichment candidate is a row counted in total_requests, and the
\* candidates are never more than total_requests.
C22_CandidatesAreCounted ==
  Prepared =>
     /\ \A k \in Range(RowNumbers) : k \notin Range(skipped_rows)
     /\ Len(requests_for_llm) <= result.total_requests

\* C23: for every category_column and every data row counted by analyze,
\* the category under which the row is counted is the category field of the
\* request record get_requests_for_llm builds from the same row.
C23_SameCategoryField ==
  Prepared =>
     \A k \in 2..Len(data) :
        LET counted == ExtractCategory(data[k], category_column)
        IN  (k \notin Range(skipped_rows) /\ counted.kind = "category") =>
               /\ RequestData(data[k], k).category = Str(counted.value)
               /\ \A j \in 1..Len(requests_for_llm) :
                    requests_for_llm[j].row_number = k
                      => requests_for_llm[j].category = Str(counted.value)

\* -------------------------------------------------------------------- main
\* The attributes an AppConfig instance has (config.py, lines 158-163).
AppConfigFields == {"google_sheets", "google_credentials", "llm", "debug"}

\* getattr(config, name) succeeds; otherwise pydantic raises AttributeError.
HasAttr(name) == name \in AppConfigFields

\* analyze_multiple_requests as main calls it, on the list returned by
\* get_requests_for_llm (whose fields are cells), after the first k items:
\* the annotated requests, the indices collected, the exception raised.
RECURSIVE BatchUpTo(_, _, _, _, _, _)
BatchUpTo(en, cl, dbg, reqs, outcomes, k) ==
  IF k = 0 THEN [requests |-> reqs, analyzed |-> <<>>, raised |-> "none"]
  ELSE LET prev == BatchUpTo(en, cl, dbg, reqs, outcomes, k - 1)
           d    == reqs[k].description
       IN  IF prev.raised # "none" THEN prev
           ELSE IF is_available(en, cl) /\ Truthy(d) /\ d.t # "str"
           THEN [prev EXCEPT !.raised = "AttributeError"]
           ELSE LET r == AnalyzeRequest(en, cl, dbg, IF d.t = "str" THEN d.s ELSE <<>>,
                                        "", outcomes[k])
                IN  IF r.escaped # "none" THEN [prev EXCEPT !.raised = r.escaped]
                    ELSE [prev EXCEPT
                            !.requests[k] = Annotate(@, r.result),
                            !.analyzed = Collect(@, k, r.result)]

\* LLMProcessor.analyze_multiple_requests(requests_for_llm): the list
\* returned, or the exception raised.
AnalyzeMultiple(en, cl, dbg, reqs, outcomes) ==
  IF ~is_available(en, cl) \/ reqs = <<>> THEN [returned |-> <<>>, raised |-> "none"]
  ELSE LET b == BatchUpTo(en, cl, dbg, reqs, outcomes, Len(reqs))
       IN  IF b.raised # "none" THEN [returned |-> <<>>, raised |-> b.raised]
           ELSE [returned |-> [j \in 1..Len(b.analyzed) |-> b.requests[b.analyzed[j]]],
                 raised |-> "none"]

MainRun(exit, stage, analyze_called, statistics_shown, llm_shown) ==
  [exit |-> exit, stage |-> stage, analyze_called |-> analyze_called,
   statistics_shown |-> statistics_shown, llm_shown |-> llm_shown]

\* main(), lines 441-617, without --test and with the data already loaded:
\* how the run ends, the last stage it reached, whether analyze was called,
\* whether print_statistics was reached, and how many analyzed requests it
\* was given.
Main(loaded, llm_flag, en, cl, dbg, rows, outcomes) ==
  IF ~loaded
  THEN MainRun("sys.exit(1)", "validate_config", FALSE, FALSE, 0)
  ELSE IF \E a \in {"spreadsheet_id", "sheet_name", "category_column", "is_llm_enabled", "debug"} :
            ~HasAttr(a)
  THEN MainRun("AttributeError", "print_config_summary", FALSE, FALSE, 0)
  ELSE IF ~HasAttr("category_column")
  THEN MainRun("sys.exit(1)", "critical error", FALSE, FALSE, 0)
  ELSE LET res == Analyze(rows, category_column).result
       IN  IF res.raised # "none"
           THEN MainRun("sys.exit(1)", "critical error", TRUE, FALSE, 0)
           ELSE IF ~llm_flag
           THEN MainRun("return", "print_statistics", TRUE, TRUE, 0)
           ELSE IF ~HasAttr("is_llm_enabled")
           THEN MainRun("sys.exit(1)", "critical error", TRUE, FALSE, 0)
           ELSE IF ~en
           THEN MainRun("return", "print_statistics", TRUE, TRUE, 0)
           ELSE LET e == AnalyzeMultiple(en, cl, dbg, get_requests_for_llm(rows), outcomes)
                IN  MainRun("return", "print_statistics", TRUE, TRUE,
                            IF e.raised # "none" THEN 0 ELSE Len(e.returned))

\* Row sets handed to main.
MainDataSets ==
  { <<>>, <<HeaderRow>>, ExampleData, ExampleDataFiveCells, TieData,
    <<HeaderRow, RowInts>>, <<HeaderRow, RowFull, RowNoCategory>> }

\* The process starts: the configuration is loaded or not, --llm is given or
\* not, and the data source yields a row set.
InitMain ==
  /\ ProcessorInit
  /\ BatchIdle
  /\ data \in MainDataSets
  /\ category_column = 3
  /\ DataIdle
  /\ args_llm \in BOOLEAN
  /\ config_loaded \in BOOLEAN
  /\ main_run = NoRun
  /\ connection = "not called"

\* One run of main().
RunMain ==
  /\ main_run = NoRun
  /\ \E outcomes \in [1..MaxBatch -> BatchOutcomes] :
       main_run' = Main(config_loaded, args_llm, enabled, client, debug, data, outcomes)
  /\ UNCHANGED << enabled, client, debug, pc, batchVars, printed, transport_calls,
                  callVars, dataVars, args_llm, config_loaded, connection >>

NextMain == RunMain

SpecMain == InitMain /\ [][NextMain]_vars

\* C20: a run of main always computes and displays the aggregate statistics,
\* whatever the enrichment stage does (LLM disabled, client unavailable,
\* every call failing, the stage raising): analyze has run and
\* print_statistics is reached.
C20_StatisticsAlwaysShown ==
  (main_run # NoRun /\ config_loaded) =>
     /\ main_run.analyze_called
     /\ main_run.statistics_shown

\* ---------------------------------------------------------- test_connection
\* A processor has been constructed and nothing has been called on it.
InitProbe ==
  /\ ProcessorInit
  /\ BatchIdle
  /\ data = <<>>
  /\ category_column = 3
  /\ DataIdle
  /\ MainIdle

\* A caller invokes test_connection; the probe call, if made, ends as o.
DoTestConnection ==
  /\ pc = "idle"
  /\ \E o \in Outcomes :
       LET r == TestConnection(enabled, client, o)
       IN  /\ connection' = r.result
           /\ response' = IF r.calls = 0 THEN NotCalled ELSE o
           /\ escaped' = r.escaped
           /\ printed' = printed \o r.printed
           /\ transport_calls' = transport_calls + r.calls
           /\ pc' = IF r.escaped = "none" THEN "returned" ELSE "raised"
  /\ UNCHANGED << enabled, client, debug, batchVars, description, category, analysis,
                  dataVars, args_llm, config_loaded, main_run >>

NextProbe == DoTestConnection

SpecProbe == InitProbe /\ [][NextProbe]_vars

\* C21: test_connection always returns a boolean and never raises; it
\* returns False without a transport call when the LLM is disabled or the
\* client is missing, True when the probe call yields a content, and False
\* when the probe call fails with a rate-limit, connection, other API or any
\* unexpected error.
C21_ProbeReturnsBoolean ==
  pc # "idle" =>
    /\ pc = "returned"
    /\ escaped = "none"
    /\ connection \in {"True", "False"}
    /\ (~enabled \/ client = "None") =>
         /\ connection = "False"
         /\ transport_calls = 0
         /\ response = NotCalled
    /\ (enabled /\ client # "None") =>
         /\ transport_calls = 1
         /\ (response.kind = "response" /\ response.content.t # "none")
              => connection = "True"
         /\ response.kind = "raise" =>
              /\ connection = "False"
              /\ Len(printed) = 1
              /\ printed[1] = CASE response.exc = "RateLimitError" -> "rate limited"
                                [] response.exc \in {"APIConnectionError", "APITimeoutError"}
                                     -> "connection error"
                                [] response.exc \in {"APIStatusError", "APIError"}
                                     -> "API error"
                                [] OTHER -> "unexpected error"

C21_Witness ==
  /\ pc = "returned"
  /\ enabled /\ client = "OpenAI"
  /\ response = Raised("RuntimeError")
  /\ connection = "False"
  /\ printed = <<"unexpected error">>

\* ------------------------------------------------- interruption of a batch
\* A process-level interruption (KeyboardInterrupt, which no except clause of
\* lines 148-164 matches and the loop of lines 190-206 does not catch) arrives
\* while the batch is between items, inside analyze_request or asleep, and
\* propagates out of analyze_multiple_requests.
Interrupt ==
  /\ pc \in {"loop", "analyze", "sleep"}
  /\ FirstHandler("KeyboardInterrupt") = 0
  /\ pc' = "interrupted"
  /\ escaped' = "KeyboardInterrupt"
  /\ UNCHANGED << dataVars, mainVars, enabled, client, debug, batchVars, printed,
                  transport_calls, description, category, response, analysis >>

NextBatch ==
  \/ Enter
  \/ StartItem
  \/ FinishItem
  \/ Sleep
  \/ Finish
  \/ Interrupt

SpecBatch == Init /\ [][NextBatch]_vars

InBatch == pc \in {"loop", "analyze", "sleep", "done", "interrupted"}

\* C24: annotation is in place and never rolled back. At every point of the
\* batch, also after an interruption, each record already processed carries
\* its final llm_analysis (the result or null) and each record not yet
\* processed has none; a step of the batch changes nothing of any record but
\* the llm_analysis of the record being processed, which is set once.
C24_AnnotationInPlace ==
  /\ [](InBatch =>
          \A k \in 1..Len(requests) :
             IF k <= Len(results)
             THEN /\ "llm_analysis" \in DOMAIN requests[k]
                  /\ requests[k]["llm_analysis"] = results[k]
             ELSE "llm_analysis" \notin DOMAIN requests[k])
  /\ [][InBatch =>
          /\ Len(requests') = Len(requests)
          /\ \A k \in 1..Len(requests) :
               requests'[k] # requests[k] =>
                  /\ pc = "analyze" /\ k = i
                  /\ "llm_analysis" \notin DOMAIN requests[k]
                  /\ DOMAIN requests'[k] = DOMAIN requests[k] \cup {"llm_analysis"}
                  /\ \A f \in DOMAIN requests[k] : requests'[k][f] = requests[k][f]]_vars

C24_Witness ==
  /\ pc = "interrupted"
  /\ escaped = "KeyboardInterrupt"
  /\ Len(requests) = 3
  /\ Len(results) = 2
  /\ HasAnalysis(requests[1])
  /\ HasNull(requests[2])
  /\ "llm_analysis" \notin DOMAIN requests[3]

====
